---- MODULE Spec2Model ----
(***************************************************************************)
(* AnalyticsService (src/app.js, lines 327-504): an event queue that is    *)
(* flushed in batches to an HTTP endpoint, with retry and exponential      *)
(* backoff, a periodic flush timer, and delivery metrics.                  *)
(*                                                                         *)
(* The service runs on the JavaScript event loop.  An action of this       *)
(* module is one run-to-completion step: the synchronous part of a call up *)
(* to its first `await`, or a callback of the loop (a fetch settling, a    *)
(* timer firing) together with the continuations it resumes.               *)
(***************************************************************************)
EXTENDS Integers, Sequences, FiniteSets, TLC

VARIABLES
    config,             \* this.config: [batchSize, retryAttempts]
    eventQueue,         \* this.eventQueue: sequence of event ids, oldest first
    isFlushInProgress,  \* this.isFlushInProgress
    flushTimer,         \* TRUE while the setInterval timer is armed
    metrics,            \* this.metrics
    flights,            \* activations of flush() that are past the guard and suspended
    shutdownPc,         \* position of the shutdown() call
    emitted,            \* what the latest step emitted: sequence of notifications
    returned,           \* how the flush() call that the latest step settled ended
    tracked,            \* how the track() call that the latest step settled ended
    closed,             \* how the shutdown() call that the latest step settled ended
    delivered,          \* ids of the events of successful flushes, in completion order
    dropped,            \* ids of the events of failed flushes, in completion order
    flushTimes,         \* durations (ms) of the successful flushes, in completion order
    nTrack,             \* number of track() calls made so far
    client,             \* a caller: [program, pc] when it awaits each call of a
                        \* program, and the snapshot getMetrics() gave it last
    sd,                 \* a shutdown() called on an idle service and left alone since
                        \* (no track(), no flush of another caller, no failure):
                        \* the queue it found, the batches it has detached
    maxTrack,           \* number of track() calls explored
    maxFlights,         \* number of flush() activations explored
    latencies,          \* durations (ms) an HTTP round trip may take
    tool,               \* the file-system tool (src/unnamed/part_001): the files it
                        \* works on, its latest call and the result of that call
    layout              \* the page of the responsive front end (src/app.js, lines
                        \* 1-287): viewport width, classes of body and of the sidebar,
                        \* and what each media query last reported

vars == <<config, eventQueue, isFlushInProgress, flushTimer, metrics, flights,
          shutdownPc, emitted, returned, tracked, closed, delivered,
          dropped, flushTimes, nTrack, client, sd, maxTrack, maxFlights, latencies,
          tool, layout>>

\* What no operation of the service writes.
limits == <<config, maxTrack, maxFlights, latencies>>
setup == <<limits, tool, layout>>

----------------------------------------------------------------------------
(* Bounds of the exploration. *)

MaxBatch == 2
MaxEvents == 3
MaxFlights == 3
MaxProgram == 4
MaxAvgFlushes == 8
MaxDrainEvents == 6
MaxDrainFlights == 4
MaxSnapshotEvents == 2
MaxLiveEvents == 2
MaxLiveFlights == 3
MaxWidth == 1500
Near == 1
MaxSnapshotFlights == 2

\* retryAttempts of the factory's default configuration, line 515
DefaultRetryAttempts == 3

Calls == {"track", "flush", "shutdown"}
ErrorKinds == {"http", "network"}

Min(a, b) == IF a < b THEN a ELSE b

RECURSIVE Pow2(_)
Pow2(n) == IF n = 0 THEN 1 ELSE 2 * Pow2(n - 1)

RECURSIVE Sum(_)
Sum(q) == IF q = <<>> THEN 0 ELSE q[1] + Sum(Tail(q))

Range(q) == {q[i] : i \in DOMAIN q}

----------------------------------------------------------------------------
(* IEEE-754 double arithmetic.                                             *)
(* metrics.averageFlushTime is a JavaScript number.  The values that occur *)
(* are non-negative and below 2^IntBits, with a short binary fraction, so a *)
(* number is written here as its expansion in base 2^LimbBits: a sequence  *)
(* of NLimbs digits, most significant first, the first IntLimbs of them    *)
(* holding the integer part.  Every operation computes the exact result    *)
(* and rounds it to a 53-bit significand, ties to even, as *, + and / do   *)
(* on doubles.                                                             *)

LimbBits == 10
IntLimbs == 2
NLimbs == 8
SignificandBits == 53
Base == Pow2(LimbBits)
IntBits == IntLimbs * LimbBits
W == NLimbs * LimbBits

Zero == [j \in 1..NLimbs |-> 0]

\* The binary expansion of a number, W bits, and back.
Bits(x) == [i \in 1..W |->
              (x[((i - 1) \div LimbBits) + 1] \div Pow2(LimbBits - 1 - ((i - 1) % LimbBits))) % 2]

RECURSIVE Digits(_, _, _)
Digits(b, lo, hi) == IF hi < lo THEN 0 ELSE 2 * Digits(b, lo, hi - 1) + b[hi]

FromBits(b) == [j \in 1..NLimbs |-> Digits(b, (j - 1) * LimbBits + 1, j * LimbBits)]

\* x + d for an integer d >= 0, exact: only the integer part changes.
AddInt(x, d) ==
    LET n == x[1] * Base + x[2] + d
    IN  [j \in 1..NLimbs |-> IF j = 1 THEN n \div Base
                             ELSE IF j = 2 THEN n % Base ELSE x[j]]

FromInt(n) == AddInt(Zero, n)

\* digits 1..j of x * m for an integer m >= 0, given the carry into digit j, exact.
RECURSIVE MulDigits(_, _, _, _)
MulDigits(x, m, j, carry) ==
    IF j = 0 THEN <<>>
    ELSE LET v == x[j] * m + carry
         IN  Append(MulDigits(x, m, j - 1, v \div Base), v % Base)

\* long division of digits 1..j of x by an integer k >= 1: quotient digits and remainder.
RECURSIVE DivDigits(_, _, _)
DivDigits(x, k, j) ==
    IF j = 0 THEN [q |-> <<>>, r |-> 0]
    ELSE LET prev == DivDigits(x, k, j - 1)
             cur == prev.r * Base + x[j]
         IN  [q |-> Append(prev.q, cur \div k), r |-> cur % k]

FirstOne(b) ==
    IF \A i \in 1..W : b[i] = 0 THEN 0
    ELSE CHOOSE i \in 1..W : b[i] = 1 /\ \A j \in 1..(i - 1) : b[j] = 0

\* b plus one unit in bit position pos.
IncrAt(b, pos) ==
    LET z == CHOOSE j \in 1..pos : b[j] = 0 /\ \A l \in (j + 1)..pos : b[l] = 1
    IN  [i \in 1..W |-> IF i < z THEN b[i]
                        ELSE IF i = z THEN 1
                        ELSE IF i <= pos THEN 0 ELSE b[i]]

\* The bits b (followed by a non-zero tail below bit W when sticky) rounded to
\* bits 1..pos, to nearest, ties to even.
RoundAt(b, pos, sticky) ==
    IF pos >= W THEN b
    ELSE LET trunc == [i \in 1..W |-> IF i <= pos THEN b[i] ELSE 0]
             guard == b[pos + 1] = 1
             rest == sticky \/ \E i \in (pos + 2)..W : b[i] = 1
             up == guard /\ (rest \/ b[pos] = 1)
         IN  IF up THEN IncrAt(trunc, pos) ELSE trunc

\* x rounded to a double.
RoundDouble(x, sticky) ==
    LET b == Bits(x)
        p == FirstOne(b)
    IN  IF p = 0 THEN Zero ELSE FromBits(RoundAt(b, p + SignificandBits - 1, sticky))

FMul(a, m) == RoundDouble(MulDigits(a, m, NLimbs, 0), FALSE)
FAdd(a, d) == RoundDouble(AddInt(a, d), FALSE)
FDiv(a, k) == LET d == DivDigits(a, k, NLimbs) IN RoundDouble(d.q, d.r # 0)

----------------------------------------------------------------------------
(* State after `new AnalyticsService(config)`. *)

NoError == <<"none", 0>>
\* new Error('Failed to send events after all retry attempts')
GenericError == <<"generic", 0>>

\* A notification: emit(name, n) or emit(name, error).
Emit(name, n, error) == [name |-> name, n |-> n, error |-> error]

\* A flush() promise resolved with n, or rejected with error.
NoReturn == [kind |-> "none", value |-> 0, error |-> NoError]
Returned(n) == [kind |-> "value", value |-> n, error |-> NoError]
Raised(error) == [kind |-> "error", value |-> 0, error |-> error]

\* A track() or shutdown() promise resolved, or rejected with error.
NotSettled == [state |-> "none", error |-> NoError]
Resolved == [state |-> "resolved", error |-> NoError]
Rejected(error) == [state |-> "rejected", error |-> error]

NewMetrics ==
    [totalEvents |-> 0, successfulFlushes |-> 0, failedFlushes |-> 0,
     averageFlushTime |-> Zero]

\* No page is loaded.
NoLayout == [width |-> 0, body |-> {}, sidebar |-> {}, reported |-> <<>>]

\* The file-system tool, not called.
NoTool == [files |-> <<>>, call |-> <<>>, result |-> <<>>]

\* A reference to a Metrics object: to the service's own ("this.metrics"), or to an
\* object of its own ("copy") whose fields are held with the reference.
NoSnapshot == [ref |-> "none", fields |-> NewMetrics]

NotWatched == [watched |-> FALSE, queue |-> <<>>, batches |-> <<>>]

Constructed(cfg) ==
    /\ config = cfg
    /\ eventQueue = <<>>
    /\ isFlushInProgress = FALSE
    /\ metrics = NewMetrics
    /\ flushTimer = TRUE
    /\ flights = <<>>
    /\ shutdownPc = "none"
    /\ emitted = <<>>
    /\ returned = NoReturn
    /\ tracked = NotSettled
    /\ closed = NotSettled
    /\ delivered = <<>>
    /\ dropped = <<>>
    /\ flushTimes = <<>>
    /\ nTrack = 0
    /\ sd = NotWatched

Configs == [batchSize : 0..MaxBatch, retryAttempts : 0..DefaultRetryAttempts]

\* Callers that call in at any time.
Init ==
    /\ \E cfg \in Configs : Constructed(cfg)
    /\ client = [program |-> <<>>, pc |-> 0, snapshot |-> NoSnapshot]
    /\ maxTrack = MaxEvents
    /\ maxFlights = MaxFlights
    /\ latencies = {2}
    /\ tool = NoTool
    /\ layout = NoLayout

----------------------------------------------------------------------------
(* flush(), lines 374-398. *)

\* Faulty variants of the early return: one ignores the flag, one the queue.
FlushGuard_QueueOnly(q) == Len(q) = 0
FlushGuard_FlagOnly(q) == isFlushInProgress

\* line 375: the early return
FlushGuard(q) == isFlushInProgress \/ Len(q) = 0

\* Faulty variants of the detaching: one takes a record too many, one copies the
\* batch and leaves it in the queue (slice for splice).
Splice_OneMore(q, n) ==
    LET k == Min(n + 1, Len(q))
    IN  [removed |-> SubSeq(q, 1, k), rest |-> SubSeq(q, k + 1, Len(q))]
Splice_Copy(q, n) ==
    [removed |-> SubSeq(q, 1, Min(n, Len(q))), rest |-> q]

\* line 383: Array.prototype.splice(0, n) for n >= 0
Splice(q, n) ==
    LET k == Min(n, Len(q))
    IN  [removed |-> SubSeq(q, 1, k), rest |-> SubSeq(q, k + 1, Len(q))]

\* lines 459-469: sendEvents() up to its first `await fetch`, or to the throw of
\* line 486 when the loop body never runs.
\* Faulty variant: the loop goes round once more.
LoopGuard_OneMore(attempt) == attempt <= config.retryAttempts + 1

\* line 461: attempt <= this.config.retryAttempts
LoopGuard(attempt) == attempt <= config.retryAttempts

sendEvents(events, caller) ==
    LET enter == LoopGuard(1)
    IN  [caller |-> caller,
         eventsToFlush |-> events,
         pc |-> IF enter THEN "fetch" ELSE "threw",
         attempt |-> 1,
         lastError |-> NoError,
         elapsed |-> 0,
         waits |-> <<>>,
         fetches |-> IF enter THEN 1 ELSE 0]

\* The synchronous part of flush() called on queue q: what it returns at once
\* (0; nothing yet when it suspends in sendEvents) and what it leaves behind.
flush(q, caller) ==
    IF FlushGuard(q)
    THEN [suspended |-> FALSE, ret |-> 0, queue |-> q, flag |-> isFlushInProgress,
          flights |-> flights]
    ELSE LET sp == Splice(q, config.batchSize)
         IN  [suspended |-> TRUE, ret |-> 0, queue |-> sp.rest, flag |-> TRUE,
              flights |-> Append(flights, sendEvents(sp.removed, caller))]

\* Number of flush() activations that have passed the guard so far.
NFlights == metrics.successfulFlushes + metrics.failedFlushes + Len(flights)

\* One flush() call by `caller` on queue q, with the caller's own bookkeeping left out.
CallFlush(q, caller) ==
    LET f == flush(q, caller)
    IN  /\ f.suspended => NFlights < maxFlights
        /\ eventQueue' = f.queue
        /\ isFlushInProgress' = f.flag
        /\ flights' = f.flights
        /\ returned' = IF f.suspended THEN NoReturn ELSE Returned(f.ret)

Started == Len(flights') = Len(flights) + 1

Busy == flights # <<>>

\* A continuation is queued as a microtask: it runs before any timer or I/O callback.
MicrotaskPending ==
    \/ shutdownPc = "loop"
    \/ \E i \in DOMAIN flights : flights[i].pc = "threw"

----------------------------------------------------------------------------
(* Calls into the service. *)

\* Faulty variant: flushes only once the queue exceeds the batch size.
TrackThreshold_Exceeds(q) == Len(q) > config.batchSize

\* line 365: the auto-flush condition
TrackThreshold(q) == Len(q) >= config.batchSize

\* Faulty variant: the event is queued but not counted.
CountEvent_Skipped(m) == m

\* line 360
CountEvent(m) == [m EXCEPT !.totalEvents = @ + 1]

\* track(), lines 351-368.  Events are numbered in the order they are accepted.
track ==
    /\ nTrack < maxTrack
    /\ nTrack' = nTrack + 1
    /\ sd' = NotWatched
    /\ closed' = NotSettled
    /\ LET id == nTrack + 1
           q == Append(eventQueue, id)
       IN  /\ metrics' = CountEvent(metrics)
           /\ emitted' = <<Emit("eventTracked", id, NoError)>>
           /\ IF TrackThreshold(q)
              THEN /\ CallFlush(q, "track")
                   /\ tracked' = IF Started THEN NotSettled ELSE Resolved
              ELSE /\ eventQueue' = q
                   /\ tracked' = Resolved
                   /\ returned' = NoReturn
                   /\ UNCHANGED <<isFlushInProgress, flights>>
    /\ UNCHANGED <<flushTimer, shutdownPc, delivered, dropped, flushTimes, setup>>

\* The batch a step detached, if it detached one.
Detached == IF Started THEN <<flights'[Len(flights')].eventsToFlush>> ELSE <<>>

\* The watched shutdown() after it has called flush() again.
Watch == sd' = IF sd.watched THEN [sd EXCEPT !.batches = @ \o Detached] ELSE sd

\* flush() called by a user of the service, lines 374-384.
userFlush ==
    /\ CallFlush(eventQueue, "flush")
    /\ emitted' = <<>>
    /\ tracked' = NotSettled
    /\ closed' = NotSettled
    /\ sd' = IF Started THEN NotWatched ELSE sd
    /\ UNCHANGED <<flushTimer, metrics, shutdownPc, delivered, dropped, flushTimes,
                   nTrack, setup>>

\* Faulty variant: the loop stops once less than a full batch is left.
DrainGuard_FullBatches(q) == Len(q) >= config.batchSize /\ Len(q) > 0

\* line 431: the loop condition
DrainGuard(q) == Len(q) > 0

\* One evaluation of the loop of lines 431-435.
Drain ==
    IF DrainGuard(eventQueue)
    THEN /\ CallFlush(eventQueue, "shutdown")
         /\ shutdownPc' = IF Started THEN "awaiting" ELSE "loop"
         /\ closed' = NotSettled
         /\ emitted' = <<>>
    ELSE /\ emitted' = <<Emit("shutdown", 0, NoError)>>
         /\ shutdownPc' = "done"
         /\ closed' = Resolved
         /\ returned' = NoReturn
         /\ UNCHANGED <<eventQueue, isFlushInProgress, flights>>

\* Faulty variant: the timer is left running.
ClearTimer_Skipped == UNCHANGED flushTimer

\* lines 426-428
ClearTimer == flushTimer' = FALSE

\* shutdown(), lines 425-436, up to its first suspension.
shutdown ==
    /\ shutdownPc = "none"
    /\ ClearTimer
    /\ Drain
    /\ tracked' = NotSettled
    /\ sd' = IF Busy THEN NotWatched
             ELSE [watched |-> TRUE, queue |-> eventQueue, batches |-> Detached]
    /\ UNCHANGED <<metrics, delivered, dropped, flushTimes, nTrack, setup>>

\* Callers that call in at any time, whatever is pending.
Track == track /\ UNCHANGED client
FlushCall == userFlush /\ UNCHANGED client
ShutdownCall == shutdown /\ UNCHANGED client

\* A caller that runs a program of calls and awaits each one.
ClientReady ==
    /\ client.pc < Len(client.program)
    /\ flights = <<>>
    /\ shutdownPc \in {"none", "done", "failed"}

ClientNext(call) ==
    /\ ClientReady
    /\ client.program[client.pc + 1] = call
    /\ client' = [client EXCEPT !.pc = @ + 1]

ClientTrack == ClientNext("track") /\ track
ClientFlush == ClientNext("flush") /\ userFlush
ClientShutdown == ClientNext("shutdown") /\ shutdown

\* Faulty variant: the callback calls flush() whatever the queue holds.
TickGuard_Always(q) == TRUE

\* line 443
TickGuard(q) == Len(q) > 0

\* The setInterval callback, lines 442-448.
TimerTick ==
    /\ flushTimer
    /\ ~MicrotaskPending
    /\ IF TickGuard(eventQueue)
       THEN CallFlush(eventQueue, "timer")
       ELSE /\ returned' = NoReturn
            /\ UNCHANGED <<eventQueue, isFlushInProgress, flights>>
    /\ emitted' = <<>>
    /\ tracked' = NotSettled
    /\ closed' = NotSettled
    /\ UNCHANGED <<flushTimer, metrics, shutdownPc, delivered, dropped, flushTimes,
                   nTrack, client, sd, setup>>

\* shutdown() resumed after `await this.flush()` resolved, line 432.
ShutdownResume ==
    /\ shutdownPc = "loop"
    /\ Drain
    /\ tracked' = NotSettled
    /\ Watch
    /\ UNCHANGED <<flushTimer, metrics, delivered, dropped, flushTimes, nTrack, client,
                   setup>>

----------------------------------------------------------------------------
(* sendEvents(), lines 458-487, and the rest of flush(), lines 386-397. *)

\* line 479
ShouldWait(attempt) == attempt < config.retryAttempts

\* Faulty variant: the wait grows linearly.
Backoff_Linear(attempt) == attempt * 1000

\* line 481: Math.pow(2, attempt) * 1000
Backoff(attempt) == Pow2(attempt) * 1000

\* line 486: lastError || new Error(...)
Thrown(fl) == IF fl.lastError # NoError THEN fl.lastError ELSE GenericError

RemoveAt(q, i) == SubSeq(q, 1, i - 1) \o SubSeq(q, i + 1, Len(q))

\* Faulty variant: weighs the old average by the new count.
updateAverageFlushTime_NewCount(m, newTime) ==
    LET totalFlushes == m.successfulFlushes
    IN  [m EXCEPT !.averageFlushTime =
            FDiv(FAdd(FMul(@, totalFlushes), newTime), totalFlushes)]

\* lines 492-496, called with successfulFlushes already incremented
updateAverageFlushTime(m, newTime) ==
    LET totalFlushes == m.successfulFlushes
    IN  [m EXCEPT !.averageFlushTime =
            FDiv(FAdd(FMul(@, totalFlushes - 1), newTime), totalFlushes)]

\* lines 386-387
OnFlushSuccess(m, newTime) ==
    updateAverageFlushTime([m EXCEPT !.successfulFlushes = @ + 1], newTime)

\* Faulty variant: a failed flush is counted twice.
OnFlushFailure_Twice(m) == [m EXCEPT !.failedFlushes = @ + 2]

\* line 392
OnFlushFailure(m) == [m EXCEPT !.failedFlushes = @ + 1]

\* Faulty variant: the flag is left set.
Finally_KeepFlag == UNCHANGED isFlushInProgress

\* line 396
Finally == isFlushInProgress' = FALSE

\* sendEvents returned to flight fl of flush(): lines 386-390, then the finally of
\* line 396, then the caller's continuation.
FlushReturn(i, fl) ==
    /\ metrics' = OnFlushSuccess(metrics, fl.elapsed)
    /\ emitted' = <<Emit("flushCompleted", Len(fl.eventsToFlush), NoError)>>
    /\ returned' = Returned(Len(fl.eventsToFlush))
    /\ delivered' = delivered \o fl.eventsToFlush
    /\ flushTimes' = Append(flushTimes, fl.elapsed)
    /\ tracked' = IF fl.caller = "track" THEN Resolved ELSE NotSettled
    /\ closed' = NotSettled
    /\ shutdownPc' = IF fl.caller = "shutdown" THEN "loop" ELSE shutdownPc
    /\ Finally
    /\ flights' = RemoveAt(flights, i)
    /\ UNCHANGED <<eventQueue, flushTimer, dropped, nTrack, client, sd, setup>>

\* Faulty variant: the loop of shutdown() goes on after a failed flush.
ShutdownAfterCatch_GoesOn(fl) == IF fl.caller = "shutdown" THEN "loop" ELSE shutdownPc

\* line 432: `await this.flush()` throws in shutdown(), which has no handler.
ShutdownAfterCatch(fl) == IF fl.caller = "shutdown" THEN "failed" ELSE shutdownPc

\* sendEvents threw in flight fl of flush(): lines 391-394, then the finally of
\* line 396, then the caller's rejection handler (line 445 for the timer).
\* Faulty variant: track() swallows the error of its flush.
TrackRaises_Swallowed(error) == Resolved

\* line 366: the await in track() is in no try, so track() rejects with the error
\* that flush() rethrows.
TrackRaises(error) == Rejected(error)

FlushCatch(i, fl) ==
    /\ LET error == Thrown(fl)
       IN  /\ emitted' = IF fl.caller = "timer"
                         THEN <<Emit("flushFailed", 0, error), Emit("error", 0, error)>>
                         ELSE <<Emit("flushFailed", 0, error)>>
           /\ returned' = Raised(error)
           /\ tracked' = IF fl.caller = "track" THEN TrackRaises(error) ELSE NotSettled
           /\ closed' = IF fl.caller = "shutdown" THEN Rejected(error) ELSE NotSettled
    /\ metrics' = OnFlushFailure(metrics)
    /\ dropped' = dropped \o fl.eventsToFlush
    /\ shutdownPc' = ShutdownAfterCatch(fl)
    /\ Finally
    /\ flights' = RemoveAt(flights, i)
    /\ sd' = NotWatched
    /\ UNCHANGED <<eventQueue, flushTimer, delivered, flushTimes, nTrack, client, setup>>

\* sendEvents is suspended again, in the delay of line 481 or the next fetch.
Suspend(i, fl) ==
    /\ flights' = [flights EXCEPT ![i] = fl]
    /\ emitted' = <<>>
    /\ returned' = NoReturn
    /\ tracked' = NotSettled
    /\ closed' = NotSettled
    /\ UNCHANGED <<eventQueue, isFlushInProgress, flushTimer, metrics, shutdownPc,
                   delivered, dropped, flushTimes, nTrack, client, sd, setup>>

\* fetch resolved with response.ok, lines 471-475: sendEvents returns and flush()
\* runs to its end.
FetchOk(i, t) ==
    /\ flights[i].pc = "fetch"
    /\ ~MicrotaskPending
    /\ FlushReturn(i, [flights[i] EXCEPT !.elapsed = @ + t])

\* Faulty variant: the throw of line 472 leaves sendEvents.
Caught_NetworkOnly(kind) == kind = "network"

\* lines 462-476: the await of fetch and the throw of line 472 are both inside the
\* try, so the catch of line 476 receives either error.
Caught(kind) == kind \in ErrorKinds

\* fetch rejected ("network") or resolved with !response.ok ("http"), lines 471-483:
\* sendEvents waits, or leaves its loop and throws (line 486) into flush().
FetchFail(i, kind, t) ==
    /\ flights[i].pc = "fetch"
    /\ ~MicrotaskPending
    /\ LET fl == [flights[i] EXCEPT !.lastError = <<kind, flights[i].attempt>>,
                                    !.elapsed = @ + t]
       IN  IF ~Caught(kind)
           THEN FlushCatch(i, fl)
           ELSE IF ShouldWait(fl.attempt)
           THEN Suspend(i, [fl EXCEPT !.pc = "delay",
                                      !.waits = Append(@, Backoff(fl.attempt))])
           ELSE IF LoopGuard(fl.attempt + 1)
           THEN Suspend(i, [fl EXCEPT !.attempt = @ + 1, !.fetches = @ + 1])
           ELSE FlushCatch(i, [fl EXCEPT !.attempt = @ + 1])

\* The backoff timer of line 481 fired: the loop of line 461 goes round.
DelayDone(i) ==
    /\ flights[i].pc = "delay"
    /\ ~MicrotaskPending
    /\ LET fl == [flights[i] EXCEPT !.attempt = @ + 1,
                                    !.elapsed = @ + flights[i].waits[Len(flights[i].waits)]]
       IN  IF LoopGuard(fl.attempt)
           THEN Suspend(i, [fl EXCEPT !.pc = "fetch", !.fetches = @ + 1])
           ELSE FlushCatch(i, fl)

\* sendEvents threw before suspending (retryAttempts < 1): flush() resumes in its catch.
ThrewAtOnce(i) ==
    /\ flights[i].pc = "threw"
    /\ FlushCatch(i, flights[i])

Deliver ==
    \E i \in DOMAIN flights :
        \/ \E kind \in ErrorKinds, t \in latencies : FetchFail(i, kind, t)
        \/ \E t \in latencies : FetchOk(i, t)
        \/ DelayDone(i)
        \/ ThrewAtOnce(i)

Next ==
    \/ Track
    \/ FlushCall
    \/ ShutdownCall
    \/ TimerTick
    \/ ShutdownResume
    \/ Deliver

Spec == Init /\ [][Next]_vars

\* The event loop runs every callback that is ready and every queued continuation.
\* At most one retry per flush.
LiveConfigs == {cfg \in Configs : cfg.retryAttempts <= 2}

InitLive ==
    /\ \E cfg \in LiveConfigs : Constructed(cfg)
    /\ client = [program |-> <<>>, pc |-> 0, snapshot |-> NoSnapshot]
    /\ maxTrack = MaxLiveEvents
    /\ maxFlights = MaxLiveFlights
    /\ latencies = {2}
    /\ tool = NoTool
    /\ layout = NoLayout

SpecLive == InitLive /\ [][Next]_vars /\ WF_vars(Deliver) /\ WF_vars(ShutdownResume)

----------------------------------------------------------------------------
(* A caller that awaits every call it makes, and no timer tick in between. *)

RECURSIVE Programs(_)
Programs(n) ==
    IF n = 0 THEN {<<>>}
    ELSE LET shorter == Programs(n - 1)
         IN  shorter \cup {Append(p, c) : p \in shorter, c \in Calls}

\* At most one retry per flush; the runs of a shorter program are the beginnings of
\* the runs of the longer ones.
ClientConfigs == {cfg \in Configs : cfg.retryAttempts <= 2}
ClientPrograms == {p \in Programs(MaxProgram) : Len(p) = MaxProgram}

InitClient ==
    /\ \E cfg \in ClientConfigs : Constructed(cfg)
    /\ \E program \in ClientPrograms : client = [program |-> program, pc |-> 0, snapshot |-> NoSnapshot]
    /\ maxTrack = MaxProgram
    /\ maxFlights = MaxProgram
    /\ latencies = {2}
    /\ tool = NoTool
    /\ layout = NoLayout

NextClient ==
    \/ ClientTrack
    \/ ClientFlush
    \/ ClientShutdown
    \/ ShutdownResume
    \/ Deliver

SpecClient == InitClient /\ [][NextClient]_vars

----------------------------------------------------------------------------
(* Longer runs with one delivery attempt per flush: queues that outgrow the batch
   size while a flush is in flight, then a shutdown(). *)

InitDrain ==
    /\ \E b \in 1..MaxBatch : Constructed([batchSize |-> b, retryAttempts |-> 1])
    /\ client = [program |-> <<>>, pc |-> 0, snapshot |-> NoSnapshot]
    /\ maxTrack = MaxDrainEvents
    /\ maxFlights = MaxDrainFlights
    /\ latencies = {2}
    /\ tool = NoTool
    /\ layout = NoLayout

SpecDrain == InitDrain /\ [][Next]_vars

----------------------------------------------------------------------------
(* A caller that takes snapshots of the metrics and writes to them. *)

\* Faulty variant: hands out the service's own object.
getMetrics_SameObject(m) == [ref |-> "this.metrics", fields |-> NewMetrics]

\* getMetrics(), lines 403-405: a new object with the fields of this.metrics.
getMetrics(m) == [ref |-> "copy", fields |-> m]

\* What the holder of reference s reads through it.
Read(s) == IF s.ref = "this.metrics" THEN metrics ELSE s.fields

\* A value no counter of the service takes.
Scribble == 0 - 1

GetMetrics ==
    /\ client' = [client EXCEPT !.snapshot = getMetrics(metrics)]
    /\ emitted' = <<>>
    /\ returned' = NoReturn
    /\ tracked' = NotSettled
    /\ closed' = NotSettled
    /\ UNCHANGED <<eventQueue, isFlushInProgress, flushTimer, metrics, flights, shutdownPc,
                   delivered, dropped, flushTimes, nTrack, sd, setup>>

\* The caller assigns to a field of the object it was given.
ModifySnapshot ==
    /\ client.snapshot.ref # "none"
    /\ Read(client.snapshot).totalEvents # Scribble
    /\ IF client.snapshot.ref = "this.metrics"
       THEN /\ metrics' = [metrics EXCEPT !.totalEvents = Scribble]
            /\ UNCHANGED client
       ELSE /\ client' = [client EXCEPT !.snapshot.fields.totalEvents = Scribble]
            /\ UNCHANGED metrics
    /\ emitted' = <<>>
    /\ returned' = NoReturn
    /\ tracked' = NotSettled
    /\ closed' = NotSettled
    /\ UNCHANGED <<eventQueue, isFlushInProgress, flushTimer, flights, shutdownPc,
                   delivered, dropped, flushTimes, nTrack, sd, setup>>

InitSnapshot ==
    /\ \E b \in 1..MaxBatch : Constructed([batchSize |-> b, retryAttempts |-> 1])
    /\ client = [program |-> <<>>, pc |-> 0, snapshot |-> NoSnapshot]
    /\ maxTrack = MaxSnapshotEvents
    /\ maxFlights = MaxSnapshotFlights
    /\ latencies = {2}
    /\ tool = NoTool
    /\ layout = NoLayout

NextSnapshot ==
    \/ Track
    \/ FlushCall
    \/ ShutdownCall
    \/ TimerTick
    \/ ShutdownResume
    \/ Deliver
    \/ GetMetrics
    \/ ModifySnapshot

SpecSnapshot == InitSnapshot /\ [][NextSnapshot]_vars

----------------------------------------------------------------------------
(* Many flushes of differing durations, one after the other. *)

RECURSIVE Repeat(_, _)
Repeat(p, n) == IF n = 0 THEN <<>> ELSE p \o Repeat(p, n - 1)

Durations == {2, 5}

InitAvg ==
    /\ \E b \in 1..2 : Constructed([batchSize |-> b, retryAttempts |-> 1])
    /\ client = [program |-> Repeat(<<"track", "flush">>, MaxAvgFlushes), pc |-> 0,
                 snapshot |-> NoSnapshot]
    /\ maxTrack = MaxAvgFlushes
    /\ maxFlights = MaxAvgFlushes
    /\ latencies = Durations
    /\ tool = NoTool
    /\ layout = NoLayout

NextAvg ==
    \/ ClientTrack
    \/ ClientFlush
    \/ Deliver

SpecAvg == InitAvg /\ [][NextAvg]_vars

----------------------------------------------------------------------------
(* The file-system tool (src/unnamed/part_001): execute, lines 20-65, on a small
   file tree.  A path is the sequence of its components; an optional string is a
   sequence of at most one string (<<>> is undefined). *)

Paths == {<<"a">>, <<"out">>, <<"out", "x">>, <<"out", "y">>}
Texts == {"", "t", "u"}
Actions == {"read", "write", "list"}

Absent == [kind |-> "absent", text |-> ""]
Directory == [kind |-> "dir", text |-> ""]
File(text) == [kind |-> "file", text |-> text]

Parent(path) == SubSeq(path, 1, Len(path) - 1)
basename(path) == path[Len(path)]

\* The directories on the way to path exist.
Reachable(files, path) == Len(path) = 1 \/ files[Parent(path)].kind = "dir"
Exists(files, path) == Reachable(files, path) /\ files[path].kind # "absent"

\* Outcomes of the fs calls: a value, or the code of the error thrown.
Ok(value) == [ok |-> TRUE, value |-> value, error |-> ""]
Throw(error) == [ok |-> FALSE, value |-> <<>>, error |-> error]

readFile(files, path) ==
    IF ~Exists(files, path) THEN Throw("ENOENT")
    ELSE IF files[path].kind = "dir" THEN Throw("EISDIR")
    ELSE Ok(files[path].text)

\* The files after fs.writeFile, or the error it throws and no change.
writeFile(files, path, content) ==
    IF content = <<>> THEN Throw("ERR_INVALID_ARG_TYPE")
    ELSE IF ~Reachable(files, path) THEN Throw("ENOENT")
    ELSE IF files[path].kind = "dir" THEN Throw("EISDIR")
    ELSE Ok([files EXCEPT ![path] = File(content[1])])

stat(files, path) ==
    IF Exists(files, path) THEN Ok(files[path].kind = "dir") ELSE Throw("ENOENT")

readdir(files, path) ==
    {basename(p) : p \in {q \in Paths : Len(q) = Len(path) + 1 /\ Parent(q) = path
                                         /\ files[q].kind # "absent"}}

Success(content, list, text, path, n) ==
    [success |-> TRUE, content |-> content, files |-> list,
     message |-> [text |-> text, path |-> path, n |-> n, error |-> ""]]

\* The catch of lines 60-65.
Failure(error) ==
    [success |-> FALSE, content |-> <<>>, files |-> <<>>,
     message |-> [text |-> "Error: ", path |-> <<>>, n |-> 0, error |-> error]]

\* Faulty variant: the write goes on without content.
Missing_Never(content) == FALSE

\* line 32: !context.content, true of undefined and of the empty string
Missing(content) == content = <<>> \/ content = <<"">>

\* execute(context) on the given files: the files it leaves and the result it returns.
execute(files, context) ==
    LET same(result) == [files |-> files, result |-> result]
    IN  CASE context.action = "read" ->
                LET r == readFile(files, context.filePath)
                IN  IF r.ok
                    THEN same(Success(<<r.value>>, <<>>, "Successfully read file: ",
                                      context.filePath, 0))
                    ELSE same(Failure(r.error))
          [] context.action = "write" ->
                IF Missing(context.content)
                THEN same(Failure("Content is required for write action"))
                ELSE LET w == writeFile(files, context.filePath, context.content)
                     IN  IF w.ok
                         THEN [files |-> w.value,
                               result |-> Success(<<>>, <<>>, "Successfully wrote file: ",
                                                  context.filePath, 0)]
                         ELSE same(Failure(w.error))
          [] context.action = "list" ->
                LET st == stat(files, context.filePath)
                IN  IF ~st.ok THEN same(Failure(st.error))
                    ELSE IF st.value
                    THEN LET names == readdir(files, context.filePath)
                         IN  same(Success(<<>>, <<names>>, "Listed files in directory: ",
                                          context.filePath, Cardinality(names)))
                    ELSE same(Success(<<>>, <<{basename(context.filePath)}>>,
                                      "File exists: ", context.filePath, 0))

\* Before the first call.
NoCall == [action |-> "none", filePath |-> <<>>, content |-> <<>>]
NoResult == [success |-> FALSE, content |-> <<>>, files |-> <<>>,
             message |-> [text |-> "", path |-> <<>>, n |-> 0, error |-> ""]]

\* The inputs the schema of lines 9-13 lets through.
Contexts ==
    [action : Actions, filePath : Paths,
     content : {<<>>} \cup {<<text>> : text \in Texts}]

Execute ==
    /\ \E context \in Contexts :
          LET after == execute(tool.files, context)
          IN  tool' = [files |-> after.files, call |-> context, result |-> after.result]
    /\ UNCHANGED <<eventQueue, isFlushInProgress, flushTimer, metrics, flights, shutdownPc,
                   emitted, returned, tracked, closed, delivered, dropped, flushTimes,
                   nTrack, client, sd, limits, layout>>

\* File trees the tool may find: the directory out exists or not, the file a also.
Trees ==
    {[p \in Paths |-> IF p = <<"out">> /\ dir THEN Directory
                      ELSE IF p = <<"a">> /\ a THEN File("t")
                      ELSE Absent] : dir \in BOOLEAN, a \in BOOLEAN}

InitTool ==
    /\ Constructed([batchSize |-> 1, retryAttempts |-> 1])
    /\ client = [program |-> <<>>, pc |-> 0, snapshot |-> NoSnapshot]
    /\ maxTrack = 0
    /\ maxFlights = 0
    /\ latencies = {}
    /\ \E files \in Trees : tool = [files |-> files, call |-> NoCall, result |-> NoResult]
    /\ layout = NoLayout

NextTool == Execute

SpecTool == InitTool /\ [][NextTool]_vars

----------------------------------------------------------------------------
(* The responsive layout of the front end (src/app.js, lines 35-92 and 263-279).
   Lengths are in hundredths of a CSS pixel, so that the bounds of the media queries
   (575.98px, ...) are integers; window.innerWidth is in whole pixels. *)

Px(n) == n * 100

\* lines 36-43: the media queries, by name
MediaQueries == {"xs", "sm", "md", "lg", "xl", "xxl"}

Matches(mq, width) ==
    CASE mq = "xs" -> width <= 57598
      [] mq = "sm" -> width >= Px(576) /\ width <= 76798
      [] mq = "md" -> width >= Px(768) /\ width <= 99198
      [] mq = "lg" -> width >= Px(992) /\ width <= 119998
      [] mq = "xl" -> width >= Px(1200) /\ width <= 139998
      [] mq = "xxl" -> width >= Px(1400)

BreakpointClass ==
    [xs |-> "breakpoint-xs", sm |-> "breakpoint-sm", md |-> "breakpoint-md",
     lg |-> "breakpoint-lg", xl |-> "breakpoint-xl", xxl |-> "breakpoint-xxl"]

BreakpointClasses == {BreakpointClass[mq] : mq \in MediaQueries}

innerWidth(width) == width \div 100

\* Faulty variant: the boundaries belong to the smaller breakpoint.
getCurrentBreakpoint_Inclusive(width) ==
    LET w == innerWidth(width)
    IN  IF w <= 576 THEN "xs"
        ELSE IF w <= 768 THEN "sm"
        ELSE IF w <= 992 THEN "md"
        ELSE IF w <= 1200 THEN "lg"
        ELSE IF w <= 1400 THEN "xl"
        ELSE "xxl"

\* lines 263-272
getCurrentBreakpoint(width) ==
    LET w == innerWidth(width)
    IN  IF w < 576 THEN "xs"
        ELSE IF w < 768 THEN "sm"
        ELSE IF w < 992 THEN "md"
        ELSE IF w < 1200 THEN "lg"
        ELSE IF w < 1400 THEN "xl"
        ELSE "xxl"

\* lines 277-279
isMobileDevice(width) == innerWidth(width) < 768

\* updateLayout, lines 45-83, on a page l whose sidebar exists.
updateLayout(l) ==
    LET cleared == l.body \ BreakpointClasses
        add(mq) == cleared \cup {BreakpointClass[mq]}
        body == IF Matches("xs", l.width) THEN add("xs")
                ELSE IF Matches("sm", l.width) THEN add("sm")
                ELSE IF Matches("md", l.width) THEN add("md")
                ELSE IF Matches("lg", l.width) THEN add("lg")
                ELSE IF Matches("xl", l.width) THEN add("xl")
                ELSE IF Matches("xxl", l.width) THEN add("xxl")
                ELSE cleared
        sidebar == IF Matches("xs", l.width) \/ Matches("sm", l.width)
                   THEN l.sidebar \ {"show"}
                   ELSE l.sidebar \cup {"show"}
    IN  [l EXCEPT !.body = body, !.sidebar = sidebar]

Evaluated(width) == [mq \in MediaQueries |-> Matches(mq, width)]

\* The media queries whose result is not the one they last reported.
Changed(l) == {mq \in MediaQueries : l.reported[mq] # Matches(mq, l.width)}

\* The integer widths looked at: the smallest, a large one, those near the breakpoints.
Widths ==
    {Px(0), Px(MaxWidth)}
        \cup {Px(b + d) : b \in {576, 768, 992, 1200, 1400}, d \in (0 - Near)..Near}

\* The widths at which the page is loaded: a phone, a wide screen.
LoadWidths == {Px(0), Px(MaxWidth)}

\* Classes the page may carry when the script starts.
MarkupClasses == {"breakpoint-lg", "dark"}

\* The user resizes the window; no listener has run yet.
Resize ==
    /\ \E width \in Widths : layout' = [layout EXCEPT !.width = width]
    /\ UNCHANGED <<eventQueue, isFlushInProgress, flushTimer, metrics, flights, shutdownPc,
                   emitted, returned, tracked, closed, delivered, dropped, flushTimes,
                   nTrack, client, sd, limits, tool>>

RECURSIVE Times(_, _)
Times(n, l) == IF n = 0 THEN l ELSE Times(n - 1, updateLayout(l))

\* lines 89-91: the browser reports the media queries that changed, and the listener
\* of each of them runs updateLayout.
MediaChange ==
    /\ Changed(layout) # {}
    /\ layout' = [Times(Cardinality(Changed(layout)), layout)
                     EXCEPT !.reported = Evaluated(layout.width)]
    /\ UNCHANGED <<eventQueue, isFlushInProgress, flushTimer, metrics, flights, shutdownPc,
                   emitted, returned, tracked, closed, delivered, dropped, flushTimes,
                   nTrack, client, sd, limits, tool>>

\* handleSidebarResponsive has run (line 86) on a page of some width and markup.
InitLayout ==
    /\ Constructed([batchSize |-> 1, retryAttempts |-> 1])
    /\ client = [program |-> <<>>, pc |-> 0, snapshot |-> NoSnapshot]
    /\ maxTrack = 0
    /\ maxFlights = 0
    /\ latencies = {}
    /\ tool = NoTool
    /\ \E width \in LoadWidths, body \in SUBSET MarkupClasses, sidebar \in SUBSET {"show"} :
          layout = updateLayout([width |-> width, body |-> body, sidebar |-> sidebar,
                                 reported |-> Evaluated(width)])

NextLayout ==
    \/ Resize
    \/ MediaChange

SpecLayout == InitLayout /\ [][NextLayout]_vars

----------------------------------------------------------------------------
(* Properties. *)

IsPrefix(p, q) == Len(p) <= Len(q) /\ SubSeq(q, 1, Len(p)) = p

Occurrences(q, e) == Cardinality({i \in DOMAIN q : q[i] = e})

\* The events of the batches in delivery, in the order the batches were detached.
RECURSIVE Batches(_)
Batches(fs) == IF fs = <<>> THEN <<>> ELSE Head(fs).eventsToFlush \o Batches(Tail(fs))

InFlight == Batches(flights)

\* The step ends flight i of flush(): with a value, or with an error.
Ends(i) == flights' = RemoveAt(flights, i)
Succeeds(i) == Ends(i) /\ returned'.kind = "value"
Fails(i) == Ends(i) /\ returned'.kind = "error"

\* The queue a flush() call of this step found: track() appends before it calls.
Found == IF nTrack' = nTrack THEN eventQueue ELSE Append(eventQueue, nTrack')

\* C1: mutual exclusion of flushes.  In every reachable state at most one detached
\* batch is in delivery; a flush() made while one is in flight - by a user, by the
\* timer or by track() - returns 0, detaches nothing, starts no delivery and changes
\* no metric (track() counts its own event, nothing more).
C1_MutualExclusion ==
    /\ [](Len(flights) <= 1)
    /\ [][Busy =>
            /\ Len(flights') <= Len(flights)
            /\ IsPrefix(eventQueue, eventQueue')
            /\ (FlushCall \/ (TimerTick /\ eventQueue # <<>>)) =>
                  /\ returned' = Returned(0)
                  /\ UNCHANGED <<eventQueue, flights, metrics, isFlushInProgress>>
            /\ (Track /\ TrackThreshold(eventQueue')) =>
                  /\ returned' = Returned(0)
                  /\ eventQueue' = Found
                  /\ metrics' = [metrics EXCEPT !.totalEvents = @ + 1]
                  /\ UNCHANGED <<flights, isFlushInProgress>>]_vars

\* A flush() has just returned 0 because of the flag alone: the queue is not empty.
C1_Witness == Busy /\ eventQueue # <<>> /\ returned = Returned(0)

\* What every flush() that passes its guard does, whatever the batch size.
DetachStep ==
    /\ Started =>
          LET batch == flights'[Len(flights')].eventsToFlush
              n == Len(Found)
          IN  /\ flights = <<>>
              /\ n > 0
              /\ Len(batch) = Min(config.batchSize, n)
              /\ batch = SubSeq(Found, 1, Len(batch))
              /\ eventQueue' = SubSeq(Found, Len(batch) + 1, n)
    /\ \A i \in DOMAIN flights :
          /\ ~Ends(i) => /\ i \in DOMAIN flights'
                         /\ flights'[i].eventsToFlush = flights[i].eventsToFlush
                         /\ IsPrefix(eventQueue, eventQueue')
          /\ Succeeds(i) => returned' = Returned(Len(flights[i].eventsToFlush))

\* C2 (amended): a flush() that starts with no flush in flight and a queue of length
\* n > 0 detaches exactly the min(batchSize, n) oldest records as one prefix in one
\* step, the queue keeping the remaining suffix in order (plus later appends), and
\* returns min(batchSize, n) on success; the batch has between 1 and batchSize
\* records when batchSize >= 1, and none when batchSize = 0.
C2_DetachesOldest ==
    [][/\ DetachStep
       /\ \A i \in DOMAIN flights' :
             LET size == Len(flights'[i].eventsToFlush)
             IN  IF config.batchSize >= 1
                 THEN 1 <= size /\ size <= config.batchSize
                 ELSE size = 0]_vars

\* A batch of batchSize records has just been detached, not the first one, and the
\* queue keeps a suffix.
C2_Witness ==
    /\ Busy
    /\ config.batchSize >= 1
    /\ flights[1].elapsed = 0
    /\ flights[1].pc = "fetch"
    /\ Len(flights[1].eventsToFlush) = config.batchSize
    /\ flights[1].eventsToFlush[1] > 1
    /\ eventQueue # <<>>

\* C2 as stated: every batch in delivery has between 1 and batchSize records.
C2_BatchNeverEmpty ==
    \A i \in DOMAIN flights :
        /\ 1 <= Len(flights[i].eventsToFlush)
        /\ Len(flights[i].eventsToFlush) <= config.batchSize

\* C3: a flush whose delivery fails on every attempt adds exactly 1 to failedFlushes
\* and nothing to successfulFlushes, and its records are never put back: in no later
\* state are they in the pending queue or in a batch in delivery.
C3_FailedBatchDropped ==
    /\ [](\A e \in Range(dropped) : e \notin Range(eventQueue) /\ e \notin Range(InFlight))
    /\ [][/\ IsPrefix(dropped, dropped')
          /\ \A i \in DOMAIN flights :
                Fails(i) =>
                    /\ metrics' = [metrics EXCEPT !.failedFlushes = @ + 1]
                    /\ dropped' = dropped \o flights[i].eventsToFlush
                    /\ flights[i].fetches = config.retryAttempts
                    /\ IsPrefix(eventQueue, eventQueue')]_vars

\* A batch was dropped and a later batch is in delivery.
C3_Witness == dropped # <<>> /\ metrics.failedFlushes >= 1 /\ InFlight # <<>>

\* C4: totalEvents equals the number of track() calls made so far, whatever flushes,
\* timer ticks and shutdown are interleaved and however the triggered flushes end.
C4_TotalEventsCountsTracks == metrics.totalEvents = nTrack

\* Three events tracked, and the flush the last track() call triggered has failed.
C4_Witness == nTrack = 3 /\ tracked.state = "rejected" /\ metrics.failedFlushes >= 1

\* C5: flush() on an empty queue returns 0, leaves the metrics, the queue and the flag
\* unchanged, attempts no delivery and emits nothing.
C5_EmptyFlushNoOp ==
    [][(FlushCall /\ eventQueue = <<>>) =>
          /\ returned' = Returned(0)
          /\ emitted' = <<>>
          /\ UNCHANGED <<metrics, eventQueue, isFlushInProgress, flights, delivered,
                         dropped>>]_vars

\* An idle service with an empty queue has just answered a flush() with 0.
C5_Witness ==
    /\ eventQueue = <<>>
    /\ ~Busy
    /\ ~isFlushInProgress
    /\ returned = Returned(0)
    /\ emitted = <<>>
    /\ nTrack > 0

\* C6: every accepted event is in exactly one of the pending queue, the single batch in
\* delivery, the delivered events and the dropped events, so totalEvents is the sum of
\* the four sizes; no event is delivered twice, none is both dropped and delivered.
C6_Conservation ==
    /\ Len(flights) <= 1
    /\ metrics.totalEvents = Len(eventQueue) + Len(InFlight) + Len(delivered) + Len(dropped)
    /\ \A e \in 1..nTrack :
          Occurrences(eventQueue, e) + Occurrences(InFlight, e)
              + Occurrences(delivered, e) + Occurrences(dropped, e) = 1
    /\ Range(eventQueue) \cup Range(InFlight) \cup Range(delivered) \cup Range(dropped)
          = 1..nTrack

\* One event delivered, one dropped, one in delivery.
C6_Witness == delivered # <<>> /\ dropped # <<>> /\ InFlight # <<>>

\* C7: with retryAttempts = N >= 1, a flush whose every attempt fails makes exactly N
\* attempts, waits 2^i seconds between failed attempt i and attempt i + 1 (2 s, 4 s for
\* N = 3) and not at all after the last, raises the error of attempt N, and adds
\* exactly 1 to failedFlushes.
C7_RetrySchedule ==
    [][\A i \in DOMAIN flights :
          (Fails(i) /\ config.retryAttempts >= 1) =>
              LET fl == flights[i]
                  N == config.retryAttempts
              IN  /\ fl.pc = "fetch"
                  /\ fl.fetches = N
                  /\ fl.waits = [j \in 1..(N - 1) |-> (2 ^ j) * 1000]
                  /\ N = 3 => fl.waits = <<2000, 4000>>
                  /\ returned'.error \in {<<kind, N>> : kind \in ErrorKinds}
                  /\ metrics'.failedFlushes = metrics.failedFlushes + 1]_vars

\* With three attempts allowed, a flush has just raised the error of the third.
C7_Witness ==
    /\ config.retryAttempts = 3
    /\ returned \in {Raised(<<kind, 3>>) : kind \in ErrorKinds}
    /\ metrics.failedFlushes = 1

\* q cut into batches of b >= 1 records, oldest first.
RECURSIVE Chunks(_, _)
Chunks(q, b) ==
    IF q = <<>> THEN <<>>
    ELSE LET k == Min(b, Len(q))
         IN  <<SubSeq(q, 1, k)>> \o Chunks(SubSeq(q, k + 1, Len(q)), b)

Sizes(batches) == [j \in DOMAIN batches |-> Len(batches[j])]

\* C8: shutdown() called on an idle service with n pending events and batchSize b >= 1,
\* every delivery succeeding and no new track() call, performs exactly ceil(n/b)
\* delivering flushes of sizes b, ..., b and then the remainder, in FIFO order (2, 2, 1
\* for n = 5, b = 2), ends with an empty queue, and has stopped the timer.
C8_ShutdownDrains ==
    (sd.watched /\ config.batchSize >= 1) =>
        LET n == Len(sd.queue)
            b == config.batchSize
            plan == Chunks(sd.queue, b)
        IN  /\ ~flushTimer
            /\ IsPrefix(sd.batches, plan)
            /\ shutdownPc = "done" =>
                  /\ sd.batches = plan
                  /\ Len(sd.batches) = (n + b - 1) \div b
                  /\ \A j \in DOMAIN sd.batches :
                        Len(sd.batches[j]) = IF j < Len(sd.batches) THEN b
                                             ELSE n - b * (Len(sd.batches) - 1)
                  /\ (n = 5 /\ b = 2) => Sizes(sd.batches) = <<2, 2, 1>>
                  /\ Len(delivered) >= n
                  /\ SubSeq(delivered, Len(delivered) - n + 1, Len(delivered)) = sd.queue
                  /\ eventQueue = <<>>
                  /\ ~Busy

\* A shutdown() that found 5 events with batchSize = 2 has completed.
C8_Witness ==
    /\ sd.watched
    /\ shutdownPc = "done"
    /\ config.batchSize = 2
    /\ Len(sd.queue) = 5

ABCThenFlush == <<"track", "track", "track", "flush">>

\* C9: with batchSize = 2, an idle service, an empty queue and succeeding deliveries,
\* three awaited track() calls A, B, C cause exactly one automatic flush, which
\* delivers [A, B] when the second call brings the queue to length 2, and leave [C]
\* pending; the explicit flush() that follows delivers [C] alone and returns 1.
C9_TwoThenOne ==
    (client.program = ABCThenFlush /\ config.batchSize = 2 /\ metrics.failedFlushes = 0) =>
        /\ client.pc = 0 => NFlights = 0 /\ eventQueue = <<>>
        /\ client.pc = 1 => NFlights = 0 /\ eventQueue = <<1>>
        /\ client.pc = 2 =>
              /\ NFlights = 1
              /\ delivered \o InFlight = <<1, 2>>
              /\ eventQueue = <<>>
              /\ Busy => flights[1].caller = "track"
        /\ client.pc = 3 =>
              /\ NFlights = 1
              /\ delivered = <<1, 2>>
              /\ eventQueue = <<3>>
              /\ ~Busy
        /\ client.pc = 4 =>
              /\ NFlights = 2
              /\ delivered \o InFlight = <<1, 2, 3>>
              /\ eventQueue = <<>>
              /\ Busy => InFlight = <<3>> /\ flights[1].caller = "flush"
              /\ ~Busy => /\ returned = Returned(1)
                          /\ emitted = <<Emit("flushCompleted", 1, NoError)>>

\* The explicit flush() after A, B, C has returned 1.
C9_Witness ==
    /\ client.program = ABCThenFlush
    /\ config.batchSize = 2
    /\ client.pc = 4
    /\ ~Busy
    /\ delivered = <<1, 2, 3>>
    /\ returned = Returned(1)

\* x <= y and y - x for numbers in the representation of the double arithmetic.
Leq(x, y) ==
    \/ x = y
    \/ \E i \in 1..NLimbs : x[i] < y[i] /\ \A j \in 1..(i - 1) : x[j] = y[j]

RECURSIVE MinusDigits(_, _, _)
MinusDigits(x, y, j) ==
    IF j = NLimbs + 1 THEN [d |-> <<>>, borrow |-> 0]
    ELSE LET low == MinusDigits(x, y, j + 1)
             v == x[j] - y[j] - low.borrow
         IN  [d |-> <<v % Base>> \o low.d, borrow |-> IF v < 0 THEN 1 ELSE 0]

Distance(x, y) ==
    IF Leq(y, x) THEN MinusDigits(x, y, 1).d ELSE MinusDigits(y, x, 1).d

\* |x - y| < 2^-40
Close(x, y) == \A j \in 1..(IntLimbs + 4) : Distance(x, y)[j] = 0

\* The double nearest to the arithmetic mean of the successful durations.
MeanFlushTime == FDiv(FromInt(Sum(flushTimes)), Len(flushTimes))

Tracks == nTrack' = nTrack + 1

\* C11: track() starts a flush if and only if no flush is in flight and the queue,
\* with its event appended, has at least batchSize records; otherwise it appends the
\* event and leaves the flag and the batch in delivery as they were.
C11_TrackStartsFlush ==
    [][Tracks =>
          /\ Started <=> (~Busy /\ ~isFlushInProgress /\ Len(Found) >= config.batchSize)
          /\ Started =>
                /\ flights'[Len(flights')].caller = "track"
                /\ isFlushInProgress'
          /\ ~Started =>
                /\ eventQueue' = Found
                /\ UNCHANGED <<flights, isFlushInProgress>>]_vars

\* The second or a later track() call has just started a flush.
C11_Witness ==
    /\ Busy
    /\ flights[1].caller = "track"
    /\ flights[1].elapsed = 0
    /\ flights[1].pc = "fetch"
    /\ nTrack >= 2
    /\ emitted = <<Emit("eventTracked", nTrack, NoError)>>

\* shutdown() goes round its loop on flush() calls that return 0: the continuations
\* keep the event loop from running any fetch or timer callback.
DrainSpins ==
    /\ shutdownPc = "loop"
    /\ eventQueue # <<>>
    /\ Busy
    /\ \A i \in DOMAIN flights : flights[i].pc # "threw"

\* C12: every flush that detaches a batch returns the service to idle, provided its
\* delivery attempts return (they never do once shutdown() spins): the flag is set
\* exactly while the flush is in progress and cleared after a success as after a
\* failure, so that a later flush() on a non-empty queue detaches a new batch.
C12_FlushReturnsToIdle ==
    /\ [](isFlushInProgress <=> Busy)
    /\ [][/\ \A i \in DOMAIN flights : Ends(i) => ~isFlushInProgress'
          /\ (FlushCall /\ ~Busy /\ eventQueue # <<>>) =>
                /\ Started
                /\ flights'[1].eventsToFlush = SubSeq(eventQueue, 1, Len(flights'[1].eventsToFlush))
                /\ flights'[1].fetches = Min(1, config.retryAttempts)
          /\ DrainSpins => DrainSpins']_vars
    /\ isFlushInProgress ~> (~isFlushInProgress \/ DrainSpins)

\* After a failed flush and a successful one, a user's flush() has started a third.
C12_Witness ==
    /\ Busy
    /\ flights[1].caller = "flush"
    /\ metrics.failedFlushes >= 1
    /\ metrics.successfulFlushes >= 1

\* The step starts a flush() called by the timer callback.
TimerStarts == Started /\ flights'[Len(flights')].caller = "timer"

\* C13: shutdown() cancels the periodic timer before it drains: from its call on the
\* timer is off for good, no tick calls flush() and no timer-started flush begins.
C13_NoTickAfterShutdown ==
    /\ [](shutdownPc # "none" => ~flushTimer)
    /\ [][/\ (shutdownPc # "none" \/ shutdownPc' # "none") => ~TimerStarts /\ ~TimerTick
          /\ ~flushTimer => ~flushTimer'
          /\ TimerStarts => flushTimer /\ eventQueue # <<>>]_vars

\* shutdown() has completed and a later track() has left an event in the queue of an
\* idle service.
C13_Witness ==
    /\ shutdownPc = "done"
    /\ eventQueue # <<>>
    /\ ~Busy
    /\ ~flushTimer

\* The step emits the shutdown notification.
EmitsShutdown == \E k \in DOMAIN emitted' : emitted'[k].name = "shutdown"

\* The step starts a flush() called by shutdown().
ShutdownStarts == Started /\ flights'[Len(flights')].caller = "shutdown"

\* C14: a flush that fails during the drain of shutdown() ends the drain: shutdown()
\* raises that flush's error, calls flush() no more, leaves the records behind the
\* failed batch in the queue and never emits the shutdown notification.
C14_DrainStopsAtFailure ==
    [][/\ \A i \in DOMAIN flights :
             (Fails(i) /\ flights[i].caller = "shutdown") =>
                 /\ shutdownPc = "awaiting"
                 /\ shutdownPc' = "failed"
                 /\ closed' = Rejected(returned'.error)
                 /\ eventQueue' = eventQueue
                 /\ flights' = <<>>
                 /\ ~EmitsShutdown
       /\ closed'.state = "rejected" => \E i \in DOMAIN flights : Fails(i)
       /\ shutdownPc = "failed" =>
             /\ shutdownPc' = "failed"
             /\ ~ShutdownStarts
             /\ ~EmitsShutdown
             /\ closed' = NotSettled]_vars

\* shutdown() has just raised the error of its flush, with a record left in the queue.
C14_Witness ==
    /\ shutdownPc = "failed"
    /\ closed.state = "rejected"
    /\ closed.error = returned.error
    /\ eventQueue # <<>>
    /\ dropped # <<>>

\* The step calls flush(): the call starts a delivery or returns 0 at once.
CallsFlush == Started \/ returned' = Returned(0)

\* C15: a timer tick calls flush() exactly when the queue is not empty; when that flush
\* fails, its error is emitted as an 'error' notification (after flushFailed) and
\* reaches no caller, failedFlushes goes up by one, and the service is idle again with
\* its timer still running.
C15_TimerFlush ==
    [][/\ TimerTick =>
             /\ CallsFlush <=> eventQueue # <<>>
             /\ Started <=> (eventQueue # <<>> /\ ~Busy)
             /\ Started => flights'[Len(flights')].caller = "timer"
             /\ UNCHANGED <<metrics, flushTimer, shutdownPc>>
       /\ \A i \in DOMAIN flights :
             Fails(i) =>
                 IF flights[i].caller = "timer"
                 THEN /\ emitted' = <<Emit("flushFailed", 0, returned'.error),
                                      Emit("error", 0, returned'.error)>>
                      /\ tracked' = NotSettled
                      /\ closed' = NotSettled
                      /\ metrics' = [metrics EXCEPT !.failedFlushes = @ + 1]
                      /\ ~isFlushInProgress'
                      /\ flights' = <<>>
                      /\ UNCHANGED <<flushTimer, shutdownPc, eventQueue>>
                 ELSE emitted' = <<Emit("flushFailed", 0, returned'.error)>>]_vars

\* A timer-called flush has just failed, with records waiting for the next flush.
C15_Witness ==
    /\ Len(emitted) = 2
    /\ emitted[2].name = "error"
    /\ flushTimer
    /\ ~Busy
    /\ eventQueue # <<>>

\* A notification of the step carries a delivery error.
ReportsError == \E k \in DOMAIN emitted' : emitted'[k].error # NoError

\* C16: no delivery error is dropped silently: when a flush ends after one of its
\* delivery attempts failed, also when a later attempt succeeded, failedFlushes has
\* gone up or a notification carries an error.
C16_NoErrorDropped ==
    [][\A i \in DOMAIN flights :
          (Ends(i) /\ (flights[i].lastError # NoError \/ Fails(i))) =>
              \/ metrics'.failedFlushes = metrics.failedFlushes + 1
              \/ ReportsError]_vars

\* C17: a track() called while a flush is in delivery appends its event, counts it and
\* completes in the same step, starting nothing and leaving the flight as it is, however
\* long the queue; while the flight lasts the queue only grows at its end, the end of
\* the flight leaves it alone, and the next flush that starts takes its oldest records.
C17_TrackNotBlocked ==
    [][/\ (Tracks /\ Busy) =>
             /\ eventQueue' = Append(eventQueue, nTrack')
             /\ metrics' = [metrics EXCEPT !.totalEvents = @ + 1]
             /\ tracked' = Resolved
             /\ UNCHANGED <<flights, isFlushInProgress>>
       /\ Busy => IsPrefix(eventQueue, eventQueue')
       /\ Started =>
             LET n == Min(config.batchSize, Len(Found))
             IN  /\ flights'[Len(flights')].eventsToFlush = SubSeq(Found, 1, n)
                 /\ eventQueue' = SubSeq(Found, n + 1, Len(Found))]_vars

\* A track() has just completed during a delivery, leaving a full batch and more queued.
C17_Witness ==
    /\ Busy
    /\ tracked = Resolved
    /\ config.batchSize >= 1
    /\ Len(eventQueue) >= config.batchSize
    /\ Len(eventQueue) >= 2

ServiceState == <<config, eventQueue, isFlushInProgress, flushTimer, metrics, flights,
                  shutdownPc>>

\* C18: getMetrics() changes nothing of the service; what a caller reads through the
\* snapshot it holds changes only when the caller takes a new snapshot or writes to
\* the one it holds; and such a write changes no counter of the service.
C18_SnapshotIsCopy ==
    [][/\ GetMetrics =>
             /\ UNCHANGED ServiceState
             /\ Read(client.snapshot)' = metrics
       /\ (client.snapshot.ref # "none" /\ ~GetMetrics /\ ~ModifySnapshot) =>
             Read(client.snapshot)' = Read(client.snapshot)
       /\ ModifySnapshot =>
             /\ UNCHANGED ServiceState
             /\ Read(client.snapshot)'.totalEvents = Scribble]_vars

\* The caller holds a snapshot it wrote to, taken before later events were counted
\* and a later flush succeeded.
C18_Witness ==
    /\ client.snapshot.ref # "none"
    /\ Read(client.snapshot).totalEvents = Scribble
    /\ Read(client.snapshot).successfulFlushes = 0
    /\ metrics.totalEvents = 2
    /\ metrics.successfulFlushes = 1

\* C19: a write call with no content returns, in that call, a result with success
\* false and the message that content is required, and leaves every file as it was:
\* none created, none modified.
C19_WriteWithoutContent ==
    [][(tool'.call.action = "write" /\ tool'.call.content = <<>>) =>
          /\ tool'.result.success = FALSE
          /\ tool'.result.message.text = "Error: "
          /\ tool'.result.message.error = "Content is required for write action"
          /\ tool'.files = tool.files]_vars

\* A write without content has just failed, on a path an earlier call wrote to and
\* on one no file is at.
C19_Witness ==
    /\ tool.call.action = "write"
    /\ tool.call.content = <<>>
    /\ tool.call.filePath = <<"out", "x">>
    /\ ~tool.result.success
    /\ tool.files[<<"out", "x">>] = Absent
    /\ tool.files[<<"a">>] = File("u")

\* C20: a flush calls fetch at most retryAttempts times; it ends with success in the
\* very step in which a fetch succeeds, having waited only between its attempts; and
\* it ends with failure only when its retryAttempts-th fetch has failed (with
\* retryAttempts below 1: without any fetch), having waited retryAttempts - 1 times.
C20_AttemptsBounded ==
    /\ [](\A i \in DOMAIN flights :
             /\ flights[i].fetches <= config.retryAttempts
             /\ flights[i].pc = "fetch" => Len(flights[i].waits) = flights[i].fetches - 1
             /\ flights[i].pc = "delay" => Len(flights[i].waits) = flights[i].fetches)
    /\ [][\A i \in DOMAIN flights :
             /\ Succeeds(i) =>
                   /\ flights[i].pc = "fetch"
                   /\ flights[i].fetches \in 1..config.retryAttempts
             /\ Fails(i) =>
                   /\ flights[i].fetches = config.retryAttempts
                   /\ flights[i].pc = IF config.retryAttempts >= 1 THEN "fetch" ELSE "threw"
                   /\ Len(flights[i].waits) = IF config.retryAttempts >= 1
                                              THEN config.retryAttempts - 1 ELSE 0
             /\ (flights[i].pc = "fetch" /\ ~Ends(i) /\ Len(flights') = Len(flights)) =>
                   /\ flights'[i].pc \in {"fetch", "delay"}
                   /\ flights'[i].pc = "delay" =>
                         /\ flights[i].fetches < config.retryAttempts
                         /\ flights'[i].lastError # NoError]_vars

\* A flush has just succeeded at its third and last attempt.
C20_Witness ==
    /\ config.retryAttempts = 3
    /\ returned.kind = "value"
    /\ returned.value >= 1
    /\ metrics.successfulFlushes = 1
    /\ metrics.failedFlushes = 0
    /\ ~Busy
    /\ flushTimes # <<>>
    /\ flushTimes[1] > 6000

\* The attempt of flight i that was waiting for its fetch fails in this step with an
\* error of the given kind.
AttemptFails(i, kind) ==
    /\ flights[i].pc = "fetch"
    /\ \/ Fails(i) /\ returned'.error = <<kind, flights[i].attempt>>
       \/ /\ Len(flights') = Len(flights)
          /\ flights'[i].lastError = <<kind, flights[i].attempt>>
          /\ flights'[i].lastError # flights[i].lastError

\* C21: a non-2xx response and a transport exception are handled alike.  Whatever the
\* kind of the failure, an attempt that is not the last is followed by the same wait
\* and no other change of the service, and a last attempt ends the flush with
\* failedFlushes one higher, the queue as it was and the flag cleared; in a state where
\* one kind of failure can happen, so can the other.
C21_FailureKindsAlike ==
    /\ [](\A i \in DOMAIN flights : \A t \in latencies :
             ENABLED FetchFail(i, "http", t) <=> ENABLED FetchFail(i, "network", t))
    /\ [][\A i \in DOMAIN flights : \A kind \in ErrorKinds :
             AttemptFails(i, kind) =>
                 IF flights[i].attempt < config.retryAttempts
                 THEN /\ Len(flights') = Len(flights)
                      /\ flights'[i].pc = "delay"
                      /\ flights'[i].waits = Append(flights[i].waits, Backoff(flights[i].attempt))
                      /\ flights'[i].fetches = flights[i].fetches
                      /\ flights'[i].attempt = flights[i].attempt
                      /\ UNCHANGED <<metrics, eventQueue, isFlushInProgress>>
                 ELSE /\ Fails(i)
                      /\ metrics' = [metrics EXCEPT !.failedFlushes = @ + 1]
                      /\ eventQueue' = eventQueue
                      /\ ~isFlushInProgress'
                      /\ dropped' = dropped \o flights[i].eventsToFlush]_vars

\* A flush has failed at its second attempt on a non-2xx response, after a transport
\* exception at its first.
C21_Witness ==
    /\ config.retryAttempts = 2
    /\ returned.kind = "error"
    /\ returned.error = <<"http", 2>>
    /\ metrics.failedFlushes = 2
    /\ \E k \in DOMAIN emitted : emitted[k].error = <<"http", 2>>

\* C22: a shutdown() called with batchSize >= 1 while another flush is in flight and
\* the queue is not empty comes to an end all the same: it completes or it raises.
C22_ShutdownTerminates ==
    (DrainSpins /\ config.batchSize >= 1) ~> (shutdownPc \in {"done", "failed"})

\* C23: in the state in which shutdown() has just completed (the shutdown notification
\* is emitted), the queue is empty and no batch is in delivery: every accepted event
\* has been delivered or dropped.
C23_ShutdownMeansDrained ==
    (\E k \in DOMAIN emitted : emitted[k].name = "shutdown") =>
        /\ eventQueue = <<>>
        /\ flights = <<>>
        /\ Len(delivered) + Len(dropped) = nTrack

\* What every track() step does first, and what a failing flush of a track() does.
TrackAccepts ==
    /\ Tracks =>
          /\ metrics'.totalEvents = metrics.totalEvents + 1
          /\ emitted'[1] = Emit("eventTracked", nTrack', NoError)
          /\ ~Started => tracked' = Resolved
    /\ \A i \in DOMAIN flights :
          (Fails(i) /\ flights[i].caller = "track") =>
              /\ tracked' = Rejected(returned'.error)
              /\ dropped' = dropped \o flights[i].eventsToFlush
    /\ tracked'.state = "rejected" =>
          \E i \in DOMAIN flights : Fails(i) /\ flights[i].caller = "track"

\* C24 as stated: a track() whose own flush fails raises the error of that flush, its
\* event having been counted and announced, and its event is in the batch that the
\* failed flush drops; a track() that starts no flush does not raise.
C24_OwnEventDropped ==
    [][/\ TrackAccepts
       /\ (Tracks /\ Started) =>
             nTrack' \in Range(flights'[Len(flights')].eventsToFlush)]_vars

\* C24, amended: as above, but the event of the track() is in the batch of its flush
\* only when the queue, the event included, held exactly batchSize records; when it
\* held more, the event stays queued while track() raises the failure of older ones.
C24_TrackRaisesFlushFailure ==
    [][/\ TrackAccepts
       /\ (Tracks /\ Started) =>
             IF Len(Found) = config.batchSize
             THEN /\ nTrack' \in Range(flights'[Len(flights')].eventsToFlush)
                  /\ nTrack' \notin Range(eventQueue')
             ELSE /\ nTrack' \notin Range(flights'[Len(flights')].eventsToFlush)
                  /\ nTrack' \in Range(eventQueue')]_vars

\* A track() has just raised the failure of its flush while its own event is queued.
C24_Witness ==
    /\ tracked.state = "rejected"
    /\ config.batchSize >= 1
    /\ eventQueue = <<nTrack>>
    /\ dropped # <<>>

\* C25: the events of the successful flushes, batch after batch in the order in which
\* the flushes complete, come in the order in which track() accepted them (event ids
\* count the track() calls): a subsequence of the acceptance order.
C25_DeliveredInOrder ==
    /\ \A j \in DOMAIN delivered : delivered[j] \in 1..nTrack
    /\ \A j, k \in DOMAIN delivered : j < k => delivered[j] < delivered[k]

\* Two batches were delivered around one that was dropped, after a shutdown().
C25_Witness ==
    /\ delivered = <<1, 3>>
    /\ dropped = <<2>>
    /\ shutdownPc = "done"

Finished == metrics.successfulFlushes + metrics.failedFlushes

\* C26: a flush that has detached a batch ends in one of two ways, never both: with
\* successfulFlushes one higher and flushCompleted emitted with the size of its batch,
\* or with failedFlushes one higher and flushFailed emitted with the error it raises.
\* No other step changes either counter, so their sum counts the flushes that have
\* finished (each successful one has recorded its duration), and neither decreases.
C26_OneOutcomePerFlush ==
    /\ [](metrics.successfulFlushes = Len(flushTimes))
    /\ [][/\ \A i \in DOMAIN flights :
                Ends(i) =>
                    \/ /\ returned' = Returned(Len(flights[i].eventsToFlush))
                       /\ metrics'.successfulFlushes = metrics.successfulFlushes + 1
                       /\ metrics'.failedFlushes = metrics.failedFlushes
                       /\ emitted' = <<Emit("flushCompleted", Len(flights[i].eventsToFlush),
                                            NoError)>>
                       /\ delivered' = delivered \o flights[i].eventsToFlush
                    \/ /\ returned'.kind = "error"
                       /\ metrics'.failedFlushes = metrics.failedFlushes + 1
                       /\ metrics'.successfulFlushes = metrics.successfulFlushes
                       /\ emitted'[1] = Emit("flushFailed", 0, returned'.error)
                       /\ dropped' = dropped \o flights[i].eventsToFlush
          /\ Finished' = Finished + (IF Len(flights') < Len(flights) THEN 1 ELSE 0)
          /\ Len(flights') < Len(flights) => \E i \in DOMAIN flights : Ends(i)
          /\ metrics'.successfulFlushes >= metrics.successfulFlushes
          /\ metrics'.failedFlushes >= metrics.failedFlushes]_vars

\* A flush of two records has just completed, after another flush failed.
C26_Witness ==
    /\ emitted = <<Emit("flushCompleted", 2, NoError)>>
    /\ metrics.failedFlushes >= 1
    /\ metrics.successfulFlushes >= 1
    /\ ~Busy

\* C27 as stated, for batchSize >= 1: when no flush is in flight (and so no track() is
\* waiting for one), the queue holds fewer than batchSize records.
C27_IdleQueueBelowBatch ==
    (config.batchSize >= 1 /\ ~Busy /\ ~isFlushInProgress) =>
        Len(eventQueue) < config.batchSize

\* C27, amended: a track() that finds the service idle leaves either a flush in flight
\* or fewer than batchSize records queued.  A track() during a flush only appends
\* (up to any length), and the end of a flush starts none and leaves the queue as it
\* is, so an idle service may hold batchSize records or more.
C27_IdleTrackFlushesAtThreshold ==
    [][/\ (Tracks /\ ~Busy) => (Started \/ Len(eventQueue') < config.batchSize)
       /\ (Tracks /\ Busy) => (~Started /\ Len(eventQueue') = Len(eventQueue) + 1)
       /\ \A i \in DOMAIN flights :
             Ends(i) => (eventQueue' = eventQueue /\ ~Busy')]_vars

\* An idle service, not shut down, with more than a batch queued.
C27_Witness ==
    /\ ~Busy
    /\ ~isFlushInProgress
    /\ shutdownPc = "none"
    /\ config.batchSize >= 1
    /\ Len(eventQueue) > config.batchSize

\* C28: with retryAttempts = 0 a flush on a non-empty queue detaches its batch and
\* calls fetch not once; it ends by raising the generic error, with failedFlushes one
\* higher and its batch dropped; nothing is ever delivered.
C28_NoAttemptStillDrops ==
    /\ [](config.retryAttempts = 0 =>
             /\ delivered = <<>>
             /\ metrics.successfulFlushes = 0
             /\ \A i \in DOMAIN flights : flights[i].fetches = 0 /\ flights[i].pc = "threw")
    /\ [][config.retryAttempts = 0 =>
             /\ (Started /\ config.batchSize >= 1) =>
                   /\ Found # <<>>
                   /\ flights'[Len(flights')].eventsToFlush # <<>>
                   /\ eventQueue' # Found
             /\ \A i \in DOMAIN flights :
                   Ends(i) =>
                       /\ returned' = Raised(GenericError)
                       /\ metrics' = [metrics EXCEPT !.failedFlushes = @ + 1]
                       /\ dropped' = dropped \o flights[i].eventsToFlush
                       /\ emitted'[1] = Emit("flushFailed", 0, GenericError)]_vars

\* Such a flush has just ended: its records are dropped, none was sent.
C28_Witness ==
    /\ config.retryAttempts = 0
    /\ returned = Raised(GenericError)
    /\ metrics.failedFlushes >= 1
    /\ dropped # <<>>
    /\ delivered = <<>>

Draining == shutdownPc \in {"loop", "awaiting"}

\* What holds of flushes with batchSize = 0 and with batchSize >= 1.
EmptyBatches ==
    /\ [](config.batchSize = 0 => delivered = <<>> /\ dropped = <<>>)
    /\ []((config.batchSize = 0 /\ Draining) => eventQueue # <<>>)
    /\ [][/\ config.batchSize = 0 =>
                /\ IsPrefix(eventQueue, eventQueue')
                /\ Started =>
                      /\ Found # <<>>
                      /\ eventQueue' = Found
                      /\ flights'[Len(flights')].eventsToFlush = <<>>
                      /\ flights'[Len(flights')].fetches = Min(1, config.retryAttempts)
                /\ \A i \in DOMAIN flights :
                      Succeeds(i) =>
                          /\ returned' = Returned(0)
                          /\ metrics'.successfulFlushes = metrics.successfulFlushes + 1
                /\ (shutdownPc # "done" /\ shutdownPc' = "done") =>
                      (shutdownPc = "none" /\ eventQueue = <<>>)
          /\ (config.batchSize >= 1 /\ Started) => Len(eventQueue') < Len(Found)]_vars

\* C29 as stated: with batchSize = 0 a flush on a non-empty queue detaches nothing,
\* delivers an empty batch and, when that succeeds, counts as successful and returns
\* 0; the queue never shrinks, and a shutdown() that found it non-empty never ends;
\* with batchSize >= 1 a flush that starts a delivery shortens the queue it found.
C29_ShutdownNeverEnds ==
    /\ EmptyBatches
    /\ [][(config.batchSize = 0 /\ Draining) => Draining']_vars

\* C29, amended: the same, but such a shutdown() never completes: it goes on flushing
\* empty batches until one of these flushes fails, and then it raises that error.
C29_ShutdownNeverCompletes ==
    /\ EmptyBatches
    /\ [][(config.batchSize = 0 /\ Draining) =>
             \/ Draining'
             \/ /\ shutdownPc' = "failed"
                /\ closed' = Rejected(returned'.error)
                /\ \E i \in DOMAIN flights : Fails(i) /\ flights[i].caller = "shutdown"]_vars

\* With batchSize = 0, shutdown() has started its third flush of an empty batch, or
\* has raised after two.
C29_Witness ==
    /\ config.batchSize = 0
    /\ eventQueue # <<>>
    /\ metrics.successfulFlushes = 2
    /\ \/ shutdownPc = "failed"
       \/ shutdownPc = "awaiting" /\ NFlights = 3

\* Every listener that had to run has run.
LayoutUpToDate == Changed(layout) = {}

\* C30: once updateLayout has run for the width the viewport has (an integer number
\* of pixels), body carries exactly one breakpoint-* class, the one of the breakpoint
\* getCurrentBreakpoint() returns, and the sidebar has the class show exactly when
\* isMobileDevice() is false; resizes change no class before updateLayout runs.
C30_ClassFollowsBreakpoint ==
    /\ [](LayoutUpToDate =>
             /\ layout.body \cap BreakpointClasses
                    = {BreakpointClass[getCurrentBreakpoint(layout.width)]}
             /\ "show" \in layout.sidebar <=> ~isMobileDevice(layout.width)
             /\ isMobileDevice(layout.width)
                    <=> getCurrentBreakpoint(layout.width) \in {"xs", "sm"})
    /\ [](Cardinality(layout.body \cap BreakpointClasses) = 1)
    /\ [][/\ layout'.body \ BreakpointClasses = layout.body \ BreakpointClasses
          /\ layout'.width # layout.width =>
                (layout'.body = layout.body /\ layout'.sidebar = layout.sidebar)
          /\ layout'.width = layout.width => LayoutUpToDate']_vars

\* The window is 768 pixels wide after having been narrower and wider, on a page that
\* came with breakpoint-lg in its markup: body is on md and the sidebar shows.
C30_Witness ==
    /\ layout.width = Px(768)
    /\ LayoutUpToDate
    /\ layout.body = {"breakpoint-md", "dark"}
    /\ layout.sidebar = {"show"}

====
